---- MODULE Spec2Model ----
(***************************************************************************)
(* A model of ofastlylog: the per-source table definitions                 *)
(* (services.py), the hourly partition reconciler                          *)
(* (Service.process_hourly_success and its helpers) and the two CLI        *)
(* subcommands that drive them (cli.py), together with the part of the     *)
(* query engine the reconciler relies on (a partition of a success table   *)
(* has rows exactly when an INSERT wrote rows into it).                    *)
(***************************************************************************)
EXTENDS Integers, Sequences, FiniteSets, Bags, TLC

(* ------------------------------------------------------------------ *)
(* Bounds of the model                                                 *)
(* ------------------------------------------------------------------ *)

\* the --hours option ranges over -1 .. MaxHours
MaxHours == 2

\* CLI invocations started in one behaviour of SpecSequential
MaxRuns == 2

(* ------------------------------------------------------------------ *)
(* datetime: a value truncated to the hour, and +/- timedelta(hours=n) *)
(* ------------------------------------------------------------------ *)

DT(y, m, d, h) == [year |-> y, month |-> m, day |-> d, hour |-> h]

IsLeap(y) == (y % 4 = 0) /\ ((y % 100 # 0) \/ (y % 400 = 0))

DaysInMonth(y, m) ==
    IF m = 2 THEN (IF IsLeap(y) THEN 29 ELSE 28)
    ELSE IF m \in {4, 6, 9, 11} THEN 30 ELSE 31

RECURSIVE DaysBeforeMonth(_, _)
DaysBeforeMonth(y, m) ==
    IF m <= 1 THEN 0 ELSE DaysBeforeMonth(y, m - 1) + DaysInMonth(y, m - 1)

DaysBeforeYear(y) ==
    ((y - 1) * 365) + ((y - 1) \div 4) - ((y - 1) \div 100) + ((y - 1) \div 400)

\* date.toordinal(): 0001-01-01 is day 1
Ymd2Ord(y, m, d) == DaysBeforeYear(y) + DaysBeforeMonth(y, m) + d

\* date.fromordinal(), by the 400/100/4/1-year cycles; the month is estimated
\* as (n + 50) >> 5 and stepped back when the estimate overshoots
Ord2Ymd(ord) ==
    LET n0   == ord - 1
        n400 == n0 \div 146097
        r400 == n0 % 146097
        n100 == r400 \div 36524
        r100 == r400 % 36524
        n4   == r100 \div 1461
        r4   == r100 % 1461
        n1   == r4 \div 365
        r1   == r4 % 365
        y    == (n400 * 400) + 1 + (n100 * 100) + (n4 * 4) + n1
        est  == (r1 + 50) \div 32
        m    == IF DaysBeforeMonth(y, est) > r1 THEN est - 1 ELSE est
    IN  IF n1 = 4 \/ n100 = 4
        THEN [year |-> y - 1, month |-> 12, day |-> 31]
        ELSE [year |-> y, month |-> m, day |-> (r1 - DaysBeforeMonth(y, m)) + 1]

\* hours since 0001-01-01T00 (ordinal day 1, hour 0)
ToHours(dt) == (Ymd2Ord(dt.year, dt.month, dt.day) * 24) + dt.hour

FromHours(n) ==
    LET ymd == Ord2Ymd(n \div 24)
    IN  DT(ymd.year, ymd.month, ymd.day, n % 24)

\* date + datetime.timedelta(hours=n); date - timedelta(hours=h) is PlusHours(date, -h)
PlusHours(dt, n) == FromHours(ToHours(dt) + n)

(* ------------------------------------------------------------------ *)
(* Column and the column lists of the services                         *)
(* ------------------------------------------------------------------ *)

\* the default of Column.comment and Column.success_sql
None == "None"

Column(n, t, c) == [name |-> n, type |-> t, comment |-> c, success_sql |-> None]

ColumnSql(n, t, c, s) == [name |-> n, type |-> t, comment |-> c, success_sql |-> s]

\* create_columns_sql: one "name type COMMENT 'comment'" entry per column, in
\* list order; the entries are the operands of the ",\n" join
create_columns_sql(columns) ==
    [j \in 1..Len(columns) |->
        columns[j].name \o " " \o columns[j].type \o " COMMENT '"
            \o columns[j].comment \o "'"]

\* Service.__init__: the columns common to all success tables
CommonColumns ==
    << Column("time_m", "int", "Minutes for start of request"),
       Column("time_s", "float", "Seconds for start of request"),
       Column("ip", "string", "Client IP address"),
       Column("host", "string", "Server hostname"),
       Column("status", "smallint", "Response HTTP Status"),
       Column("hit", "boolean", "Cache hit?"),
       Column("size", "int", "Response body size in bytes"),
       Column("ttfb", "float", "Time to first byte in seconds"),
       Column("backend", "string", "Backend server for response"),
       Column("referer", "string", "HTTP Referer Header"),
       Column("useragent", "string", "HTTP User-Agent Header"),
       Column("s_ch", "string", "HTTP Sec-CH-UA Header"),
       Column("s_fetchsite", "string", "HTTP Sec-Fetch-Site Header"),
       Column("origin", "string", "HTTP Origin Header"),
       Column("reqwith", "string", "HTTP X-Requested-With Header"),
       Column("accept", "string", "HTTP Accept Header"),
       Column("acceptlanguage", "string", "HTTP Accept-Language Header"),
       Column("reqs", "string", "Number of requests in HTTP connection"),
       Column("sigsci", "string", "NGWAF signals"),
       Column("ja4t", "string", "JA4T fingerprint"),
       Column("ja4", "string", "JA4 fingerprint"),
       Column("ja4l", "string", "JA4L fingerprint"),
       Column("ja4h", "string", "JA4H fingerprint"),
       Column("asn", "int", "Client ASN"),
       Column("pop", "string", "Fastly POP"),
       Column("country", "string", "Client country"),
       Column("tz", "int", "Client timezone offset") >>

\* mutant: base_columns aliases success_columns (no deepcopy), so the `+=` that
\* adds path to the base list adds it to the success list too
Service_aliased ==
    [ schema             |-> "logs",
      success_filter_sql |-> "status IN (200, 206, 304)\n",
      success_columns    |-> CommonColumns
                               \o << Column("path", "string", "Path requested") >>,
      base_columns       |-> CommonColumns
                               \o << Column("path", "string", "Path requested") >> ]

\* Service.__init__ (the class defaults included): what every service starts from
Service ==
    [ schema             |-> "logs",
      success_filter_sql |-> "status IN (200, 206, 304)\n",
      success_columns    |-> CommonColumns,
      base_columns       |-> CommonColumns
                               \o << Column("path", "string", "Path requested") >> ]

\* TileService.__init__ only calls Service.__init__
TileService == Service

RasterTileRegexp == "^/(\\d{1,2})/(\\d{1,6})/(\\d{1,6})"

RasterTileService ==
    LET s == TileService
        re == RasterTileRegexp
    IN  [ schema |-> s.schema,
          base_name |-> "fastly_raster_logs_v20",
          base_location |-> "s3://openstreetmap-fastly-raster-logs/tile/v20/",
          base_comment |-> "Fastly logs for tile.openstreetmap.org",
          base_columns |-> s.base_columns
              \o << Column("ratelimit", "tinyint", "Rate limiting mode applied") >>,
          success_name |-> "fastly_raster_success_logs_v4",
          success_location |->
              "s3://openstreetmap-fastly-raster-processed-logs/success/v4/",
          success_comment |->
              "Fastly logs for tile.openstreetmap.org successful requests",
          success_columns |->
              << ColumnSql("z", "tinyint", "Zoom level of tile",
                     "CAST(regexp_extract(path, '" \o re \o "', 1) AS integer) AS z"),
                 ColumnSql("x", "integer", "x of tile",
                     "CAST(regexp_extract(path, '" \o re \o "', 2) AS integer) AS x"),
                 ColumnSql("y", "integer", "y of tile",
                     "CAST(regexp_extract(path, '" \o re \o "', 3) AS integer) AS y") >>
              \o s.success_columns
              \o << Column("ratelimit", "tinyint", "Rate limiting mode applied") >>,
          success_filter_sql |->
              s.success_filter_sql \o "AND regexp_like(path, '" \o re \o "')" ]

VectorTileRegexp == "^/([^/]+)/(\\d{1,2})/(\\d{1,6})/(\\d{1,6})"

VectorTileService ==
    LET s == TileService
        re == VectorTileRegexp
    IN  [ schema |-> s.schema,
          base_name |-> "fastly_vector_logs_v2",
          base_location |-> "s3://openstreetmap-fastly-vector-logs/vector/v2/",
          base_comment |-> "Fastly logs for vector.openstreetmap.org",
          base_columns |-> s.base_columns,
          success_name |-> "fastly_vector_success_logs_v2",
          success_location |->
              "s3://openstreetmap-fastly-vector-processed-logs/vector/v2/",
          success_comment |->
              "Fastly logs for vector.openstreetmap.org successful requests",
          success_columns |->
              << ColumnSql("tileset", "string", "Tileset served",
                     "regexp_extract(path, '" \o re \o "', 1) AS tileset"),
                 ColumnSql("z", "tinyint", "Zoom level of tile",
                     "CAST(regexp_extract(path, '" \o re \o "', 2) AS integer) AS z"),
                 ColumnSql("x", "integer", "x of tile",
                     "CAST(regexp_extract(path, '" \o re \o "', 3) AS integer) AS x"),
                 ColumnSql("y", "integer", "y of tile",
                     "CAST(regexp_extract(path, '" \o re \o "', 4) AS integer) AS y") >>
              \o s.success_columns,
          success_filter_sql |->
              s.success_filter_sql \o "AND regexp_like(path, '" \o re \o "')" ]

NominatimService ==
    LET s == Service
    IN  [ schema |-> s.schema,
          base_name |-> "fastly_nominatim_logs_v3",
          base_location |-> "s3://openstreetmap-fastly-nominatim-logs/nominatim/v3/",
          base_comment |-> "Fastly logs for nominatim.openstreetmap.org",
          base_columns |-> s.base_columns
              \o << Column("query", "string", "Query string of request") >>,
          success_name |-> "fastly_nominatim_success_logs_v1",
          success_location |->
              "s3://openstreetmap-fastly-nominatim-processed-logs/success/v1/",
          success_comment |->
              "Fastly logs for nominatim.openstreetmap.org successful requests",
          success_columns |-> s.success_columns,
          success_filter_sql |-> s.success_filter_sql ]

\* the three --raster / --vector / --nominatim blocks of the subcommands, in
\* the order the CLI runs them, and the class each block constructs
Sources == << "raster", "vector", "nominatim" >>

ServiceOf(source) ==
    CASE source = "raster"    -> RasterTileService
      [] source = "vector"    -> VectorTileService
      [] source = "nominatim" -> NominatimService

(* ------------------------------------------------------------------ *)
(* The SQL the services build.  A statement is kept clause by clause;  *)
(* numbers interpolated into the text are decimal strings.             *)
(* ------------------------------------------------------------------ *)

\* f"WHERE year={date.year} AND month={date.month} AND day={date.day} AND hour={date.hour}"
WhereSql(date) ==
    [ year  |-> ToString(date.year),  month |-> ToString(date.month),
      day   |-> ToString(date.day),   hour  |-> ToString(date.hour) ]

\* the statement of check_hour: SELECT 1 FROM schema.table WHERE ... LIMIT 1
check_hour_sql(s, table, date) ==
    [ stmt   |-> "SELECT",
      select |-> << "1" >>,
      from   |-> s.schema \o "." \o table,
      where  |-> WhereSql(date),
      limit  |-> "1" ]

\* mutant: the probe's answer is not looked at
check_hour_result_any(rows) == TRUE

\* len(cursor.fetchall()) > 0
check_hour_result(rows) == rows > 0

\* mutant: the partition columns are appended in the wrong order
SelectList_misordered(s) ==
    [j \in 1..Len(s.success_columns) |->
        IF s.success_columns[j].success_sql # None
        THEN s.success_columns[j].success_sql
        ELSE s.success_columns[j].name]
    \o << "hour", "day", "month", "year" >>

\* the select list of process_hourly_success_sql: c.success_sql or c.name for
\* every success column, then the four partition columns
SelectList(s) ==
    [j \in 1..Len(s.success_columns) |->
        IF s.success_columns[j].success_sql # None
        THEN s.success_columns[j].success_sql
        ELSE s.success_columns[j].name]
    \o << "year", "month", "day", "hour" >>

process_hourly_success_sql(s, date) ==
    [ stmt   |-> "INSERT",
      into   |-> s.schema \o "." \o s.success_name,
      select |-> SelectList(s),
      from   |-> s.schema \o "." \o s.base_name,
      where  |-> WhereSql(date),
      and    |-> s.success_filter_sql ]

\* the partition projection properties the two table recipes share
ProjectionHead(location) ==
    << << "has_encrypted_data", "false" >>,
       << "storage.location.template",
          location \o "${year}/${month}/${day}/${hour}/" >>,
       << "projection.enabled", "true" >>,
       << "projection.year.type", "integer" >>,
       << "projection.year.range", "2025,2040" >> >>

create_base_table_sql(s) ==
    [ stmt           |-> "CREATE EXTERNAL TABLE",
      table          |-> s.schema \o "." \o s.base_name,
      columns        |-> create_columns_sql(s.base_columns),
      comment        |-> s.base_comment,
      partitioned_by |-> "year int, month int, day int, hour int",
      serde          |-> "org.openx.data.jsonserde.JsonSerDe",
      inputformat    |-> "org.apache.hadoop.mapred.TextInputFormat",
      outputformat   |-> "org.apache.hadoop.hive.ql.io.HiveIgnoreKeyTextOutputFormat",
      location       |-> s.base_location,
      tblproperties  |->
          ProjectionHead(s.base_location)
          \o << << "projection.month.type", "integer" >>,
                << "projection.month.range", "1,12" >>,
                << "projection.month.digits", "2" >>,
                << "projection.day.type", "integer" >>,
                << "projection.day.range", "1,31" >>,
                << "projection.day.digits", "2" >>,
                << "projection.hour.type", "integer" >>,
                << "projection.hour.range", "0,23" >>,
                << "projection.hour.digits", "2" >> >> ]

\* mutant: the success recipe keeps the digits of the base recipe
create_success_table_sql_digits(s) ==
    [ stmt           |-> "CREATE EXTERNAL TABLE",
      table          |-> s.schema \o "." \o s.success_name,
      columns        |-> create_columns_sql(s.success_columns),
      comment        |-> s.success_comment,
      partitioned_by |-> "year int, month int, day int, hour int",
      serde          |-> "org.apache.hadoop.hive.ql.io.parquet.serde.ParquetHiveSerDe",
      inputformat    |-> "org.apache.hadoop.hive.ql.io.parquet.MapredParquetInputFormat",
      outputformat   |-> "org.apache.hadoop.hive.ql.io.parquet.MapredParquetOutputFormat",
      location       |-> s.success_location,
      tblproperties  |->
          ProjectionHead(s.success_location)
          \o << << "projection.month.type", "integer" >>,
                << "projection.month.range", "1,12" >>,
                << "projection.month.digits", "2" >>,
                << "projection.day.type", "integer" >>,
                << "projection.day.range", "1,31" >>,
                << "projection.day.digits", "2" >>,
                << "projection.hour.type", "integer" >>,
                << "projection.hour.range", "0,23" >>,
                << "projection.hour.digits", "2" >>,
                << "parquet.compression", "ZSTD" >> >> ]

create_success_table_sql(s) ==
    [ stmt           |-> "CREATE EXTERNAL TABLE",
      table          |-> s.schema \o "." \o s.success_name,
      columns        |-> create_columns_sql(s.success_columns),
      comment        |-> s.success_comment,
      partitioned_by |-> "year int, month int, day int, hour int",
      serde          |-> "org.apache.hadoop.hive.ql.io.parquet.serde.ParquetHiveSerDe",
      inputformat    |-> "org.apache.hadoop.hive.ql.io.parquet.MapredParquetInputFormat",
      outputformat   |-> "org.apache.hadoop.hive.ql.io.parquet.MapredParquetOutputFormat",
      location       |-> s.success_location,
      tblproperties  |->
          ProjectionHead(s.success_location)
          \o << << "projection.month.type", "integer" >>,
                << "projection.month.range", "1,12" >>,
                << "projection.day.type", "integer" >>,
                << "projection.day.range", "1,31" >>,
                << "projection.hour.type", "integer" >>,
                << "projection.hour.range", "0,23" >>,
                << "parquet.compression", "ZSTD" >> >> ]

(* ------------------------------------------------------------------ *)
(* State                                                               *)
(* ------------------------------------------------------------------ *)

VARIABLES
    now,      \* the wall-clock hour the invocations run in
    data,     \* query engine: the rows INSERTs wrote, a bag of [table, year, month, day, hour]
    inserts,  \* history: the INSERTs the engine executed, a bag of <<table, where>>
    runs,     \* history: CLI invocations started so far
    pc,       \* per invocation: where it stands
    args,     \* per invocation: the parsed command line
    blk,      \* per invocation: which source block of the subcommand it is in
    conn,     \* per invocation: connections currently open
    opened,   \* per invocation, history: connections opened so far
    service,  \* per invocation: the source whose service object the block built
    exc,      \* per invocation: the exception in flight, or None
    h,        \* get_missing_partitions: the loop variable
    result,   \* get_missing_partitions: the list being built
    missing,  \* process_hourly_success: the list of the first enumeration
    todo,     \* process_hourly_success: the list the for loop iterates
    idx,      \* process_hourly_success: position of the for loop in todo
    stmts     \* per invocation, history: the statements executed over the
              \* current connection, each with the engine's answer

vars == << now, data, inserts, runs, pc, args, blk, conn, opened, service,
           exc, h, result, missing, todo, idx, stmts >>

hourlyVars == << h, result, missing, todo, idx >>

cliVars == << args, blk, conn, opened, service >>

Procs == {1, 2}

\* wall-clock hours: the second hour of a year and the second hour after a
\* leap day, so that the windows cross a day, a month and a year boundary
Epochs == { DT(2026, 1, 1, 1), DT(2024, 3, 1, 1) }

OptionValues == {"base", "success"}

HoursValues == (-1)..MaxHours

\* hourly tests its option lists for `!= []` and `"success" in` only: an empty
\* list, a list with success, a list without it
HourlyOptionLists == { {}, {"success"}, {"base"} }

\* a --date value: the default (one hour before now) or the hour before it,
\* with the minutes the command line or the clock gave it
DateInputs(t) ==
    { [year |-> d.year, month |-> d.month, day |-> d.day, hour |-> d.hour, minute |-> m] :
        d \in {PlusHours(t, -1), PlusHours(t, -2)}, m \in {0, 30} }

\* cli.hourly: date = datetime.datetime(date.year, date.month, date.day, date.hour, ...)
Truncate(d) == DT(d.year, d.month, d.day, d.hour)

Args(cmd, r, v, n, d, hs) ==
    [cmd |-> cmd, raster |-> r, vector |-> v, nominatim |-> n, date |-> d, hours |-> hs]

\* every command line of the two subcommands
CliArgs(t) ==
    { Args("create_table", r, v, n, PlusHours(t, -1), 1) :
        r \in SUBSET OptionValues, v \in SUBSET OptionValues, n \in SUBSET OptionValues }
    \cup
    { Args("hourly", r, v, {}, Truncate(d), hs) :
        r \in HourlyOptionLists, v \in HourlyOptionLists,
        d \in DateInputs(t), hs \in HoursValues }

\* the command lines that name at most one source
OneSourceArgs(t) ==
    { a \in CliArgs(t) : Cardinality({j \in 1..3 : a[Sources[j]] # {}}) <= 1 }

\* process hourly --raster success, with a window of at least one hour
RasterHourlyArgs(t) ==
    { a \in CliArgs(t) : /\ a.cmd = "hourly"
                         /\ a.raster = {"success"}
                         /\ a.vector = {}
                         /\ a.hours >= 1 }

(* ------------------------------------------------------------------ *)
(* The query engine (external): what a statement can answer            *)
(* ------------------------------------------------------------------ *)

\* the base tables are written by the log delivery, not through this program
ExternalTables ==
    { ServiceOf(Sources[j]).schema \o "." \o ServiceOf(Sources[j]).base_name : j \in 1..3 }

\* the partitions a row of a base table may lie in
Universe(t) == { PlusHours(t, -n) : n \in 0..(MaxHours + 2) }

\* a row's partition columns satisfy year=.. AND month=.. AND day=.. AND hour=..
Matches(row, where) ==
    /\ ToString(row.year) = where.year
    /\ ToString(row.month) = where.month
    /\ ToString(row.day) = where.day
    /\ ToString(row.hour) = where.hour

PartitionColumns == {"year", "month", "day", "hour"}

\* INSERT INTO maps the select list by position: the last four items fill the
\* partition columns (year, month, day, hour) of the target table
InsertedRow(sql, k) ==
    LET n == Len(sql.select)
    IN  [ table |-> sql.into,
          year  |-> k[sql.select[n - 3]], month |-> k[sql.select[n - 2]],
          day   |-> k[sql.select[n - 1]], hour  |-> k[sql.select[n]] ]

\* The answers the engine can give to a statement: it may fail; a SELECT of an
\* engine-written table sees the rows written so far, a SELECT of a base table
\* sees whatever has been delivered; an INSERT copies the rows of the base
\* partition that pass the filter, which may be none.
EngineOutcomes(sql) ==
    { [ok |-> FALSE, rows |-> 0, data |-> data] }
    \cup
    ( CASE sql.stmt = "SELECT" ->
             IF sql.from \in ExternalTables
             THEN { [ok |-> TRUE, rows |-> n, data |-> data] : n \in {0, 1} }
             ELSE { [ok |-> TRUE,
                     rows |-> IF \E row \in BagToSet(data) :
                                    row.table = sql.from /\ Matches(row, sql.where)
                              THEN 1 ELSE 0,
                     data |-> data] }
        [] sql.stmt = "INSERT" ->
             LET n == Len(sql.select)
                 src == { k \in Universe(now) : Matches(k, sql.where) }
             IN  IF n < 4 \/ \E j \in (n - 3)..n : sql.select[j] \notin PartitionColumns
                 THEN {}
                 ELSE { [ok |-> TRUE, rows |-> 0, data |-> data] }
                      \cup { [ok |-> TRUE, rows |-> 1,
                              data |-> data (+) SetToBag({InsertedRow(sql, k)})] :
                                 k \in src }
        [] OTHER -> { [ok |-> TRUE, rows |-> 0, data |-> data] } )

\* cursor.execute(sql) answered by out: the statement joins the log, the
\* engine's tables change as the answer says
Execute(i, sql, out) ==
    /\ stmts' = [stmts EXCEPT ![i] = Append(@, [sql |-> sql, ok |-> out.ok, rows |-> out.rows])]
    /\ data' = out.data
    /\ inserts' = IF sql.stmt = "INSERT" /\ out.ok
                  THEN inserts (+) SetToBag({<< sql.into, sql.where >>})
                  ELSE inserts

(* ------------------------------------------------------------------ *)
(* The CLI subcommands and the service methods, one action per step    *)
(* ------------------------------------------------------------------ *)

\* no invocation has started
Idle ==
    /\ inserts = EmptyBag
    /\ runs = 0
    /\ pc = [i \in Procs |-> "idle"]
    /\ args = [i \in Procs |-> Args("create_table", {}, {}, {}, PlusHours(now, -1), 1)]
    /\ blk = [i \in Procs |-> 1]
    /\ conn = [i \in Procs |-> 0]
    /\ opened = [i \in Procs |-> 0]
    /\ service = [i \in Procs |-> None]
    /\ exc = [i \in Procs |-> None]
    /\ h = [i \in Procs |-> 0]
    /\ result = [i \in Procs |-> << >>]
    /\ missing = [i \in Procs |-> << >>]
    /\ todo = [i \in Procs |-> << >>]
    /\ idx = [i \in Procs |-> 1]
    /\ stmts = [i \in Procs |-> << >>]

\* the success tables the reconciler fills
SuccessTables ==
    { ServiceOf(Sources[j]).schema \o "." \o ServiceOf(Sources[j]).success_name : j \in 1..2 }

\* the partitions the windows of the invocations can cover
Window(t) == { PlusHours(t, -n) : n \in 1..(MaxHours + 1) }

\* earlier runs have filled any of the window's partitions of a success table
Init ==
    /\ now \in Epochs
    /\ \E t \in SuccessTables : \E filled \in SUBSET Window(now) :
         data = SetToBag({ [table |-> t, year |-> k.year, month |-> k.month,
                            day |-> k.day, hour |-> k.hour] : k \in filled })
    /\ Idle

\* the success tables have just been created
InitFresh ==
    /\ now \in Epochs
    /\ data = EmptyBag
    /\ Idle

\* create_table has the raster, vector and nominatim blocks, hourly the first two
NBlocks(cmd) == IF cmd = "create_table" THEN 3 ELSE 2

Opts(i) == args[i][Sources[blk[i]]]

Svc(i) == ServiceOf(service[i])

\* invocation i is not running and the bound on invocations allows another
CanStart(i, limit) == pc[i] \in {"idle", "done", "raised"} /\ runs < limit

\* a subcommand is invoked with command line a
Start(i, a) ==
    /\ pc[i] \in {"idle", "done", "raised"}
    /\ runs' = runs + 1
    /\ pc' = [pc EXCEPT ![i] = "block"]
    /\ args' = [args EXCEPT ![i] = a]
    /\ blk' = [blk EXCEPT ![i] = 1]
    /\ conn' = [conn EXCEPT ![i] = 0]
    /\ opened' = [opened EXCEPT ![i] = 0]
    /\ service' = [service EXCEPT ![i] = None]
    /\ exc' = [exc EXCEPT ![i] = None]
    /\ h' = [h EXCEPT ![i] = 0]
    /\ result' = [result EXCEPT ![i] = << >>]
    /\ missing' = [missing EXCEPT ![i] = << >>]
    /\ todo' = [todo EXCEPT ![i] = << >>]
    /\ idx' = [idx EXCEPT ![i] = 1]
    /\ stmts' = [stmts EXCEPT ![i] = << >>]
    /\ UNCHANGED << now, data, inserts >>

\* after a block: the next block's test, or the end of the subcommand
AfterBlock(i) == IF blk[i] < NBlocks(args[i].cmd) THEN "block" ELSE "done"

\* `if raster != []:` (vector, nominatim) with an empty option list
SkipBlock(i) ==
    /\ pc[i] = "block"
    /\ Opts(i) = {}
    /\ pc' = [pc EXCEPT ![i] = AfterBlock(i)]
    /\ blk' = [blk EXCEPT ![i] = IF AfterBlock(i) = "block" THEN @ + 1 ELSE @]
    /\ UNCHANGED << now, data, inserts, runs, args, conn, opened, service, exc,
                    hourlyVars, stmts >>

\* the method the block calls after create_base_table (or instead of it)
AfterBase(source, opts) ==
    IF "success" \in opts
    THEN (IF source = "nominatim" THEN "not_implemented" ELSE "create_success_table")
    ELSE "exit"

\* the first method the block calls
BodyStart(cmd, source, opts) ==
    IF cmd = "create_table"
    THEN (IF "base" \in opts THEN "create_base_table" ELSE AfterBase(source, opts))
    ELSE (IF "success" \in opts THEN "check_base" ELSE "exit")

\* `with pyathena.connect(...) as conn: service = XService(conn)`; connecting
\* may fail, and then nothing was opened
Connect(i) ==
    /\ pc[i] = "block"
    /\ Opts(i) # {}
    /\ \E ok \in BOOLEAN :
         IF ok
         THEN /\ conn' = [conn EXCEPT ![i] = @ + 1]
              /\ opened' = [opened EXCEPT ![i] = @ + 1]
              /\ service' = [service EXCEPT ![i] = Sources[blk[i]]]
              /\ stmts' = [stmts EXCEPT ![i] = << >>]
              /\ pc' = [pc EXCEPT ![i] = BodyStart(args[i].cmd, Sources[blk[i]], Opts(i))]
              /\ exc' = exc
         ELSE /\ exc' = [exc EXCEPT ![i] = "EngineError"]
              /\ pc' = [pc EXCEPT ![i] = "raised"]
              /\ UNCHANGED << conn, opened, service, stmts >>
    /\ UNCHANGED << now, data, inserts, runs, args, blk, hourlyVars >>

\* mutant: the error is swallowed and the method carries on
OnEngineError_swallowed(i, next) == next

\* what a statement's failure does to the invocation: the error is raised out
\* of the method, towards the end of the with block
OnEngineError(i, next) == "exit"

\* the control part of a step that executed a statement answered by out
AfterStatement(i, out, next) ==
    /\ pc' = [pc EXCEPT ![i] = IF out.ok THEN next ELSE OnEngineError(i, next)]
    /\ exc' = [exc EXCEPT ![i] = IF out.ok THEN @ ELSE "EngineError"]

\* Service.create_base_table
CreateBaseTable(i) ==
    /\ pc[i] = "create_base_table"
    /\ LET sql == create_base_table_sql(Svc(i))
       IN  \E out \in EngineOutcomes(sql) :
             /\ Execute(i, sql, out)
             /\ AfterStatement(i, out, AfterBase(service[i], Opts(i)))
    /\ UNCHANGED << now, runs, cliVars, hourlyVars >>

\* Service.create_success_table
CreateSuccessTable(i) ==
    /\ pc[i] = "create_success_table"
    /\ LET sql == create_success_table_sql(Svc(i))
       IN  \E out \in EngineOutcomes(sql) :
             /\ Execute(i, sql, out)
             /\ AfterStatement(i, out, "exit")
    /\ UNCHANGED << now, runs, cliVars, hourlyVars >>

\* raise NotImplementedError("Nominatim success table not implemented yet")
NotImplemented(i) ==
    /\ pc[i] = "not_implemented"
    /\ exc' = [exc EXCEPT ![i] = "NotImplementedError"]
    /\ pc' = [pc EXCEPT ![i] = "exit"]
    /\ UNCHANGED << now, data, inserts, runs, cliVars, hourlyVars, stmts >>

\* the partition the gate probes: date + datetime.timedelta(hours=1)
GateDate(date) == PlusHours(date, 1)

\* process_hourly_success, its first statement: the base table must have
\* data for the hour after date, else ValueError
CheckBase(i) ==
    /\ pc[i] = "check_base"
    /\ LET sql == check_hour_sql(Svc(i), Svc(i).base_name, GateDate(args[i].date))
       IN  \E out \in EngineOutcomes(sql) :
             /\ Execute(i, sql, out)
             /\ IF out.ok /\ ~check_hour_result(out.rows)
                THEN /\ exc' = [exc EXCEPT ![i] = "ValueError"]
                     /\ pc' = [pc EXCEPT ![i] = "exit"]
                ELSE AfterStatement(i, out, "pass1")
    /\ h' = [h EXCEPT ![i] = 0]
    /\ result' = [result EXCEPT ![i] = << >>]
    /\ UNCHANGED << now, runs, cliVars, missing, todo, idx >>

\* mutant: the hour field alone is decremented, without borrowing from the day
HourAt_no_borrow(date, hh) == [date EXCEPT !.hour = @ - hh]

\* get_missing_partitions: d = date - datetime.timedelta(hours=h)
HourAt(date, hh) == PlusHours(date, -hh)

\* mutant: the `not` is lost, the partitions that have data are collected
Collect_present(res, d, rows) == IF check_hour_result(rows) THEN Append(res, d) ELSE res

\* mutant: the probe's answer is ignored, every hour of the window is collected
Collect_all(res, d, rows) == Append(res, d)

\* get_missing_partitions: `if not self.check_hour(table, d): result.append(d)`
Collect(res, d, rows) == IF ~check_hour_result(rows) THEN Append(res, d) ELSE res

\* get_missing_partitions, one iteration of `for h in range(hours)`; it runs
\* in both enumerations of process_hourly_success
GetMissingStep(i) ==
    /\ pc[i] \in {"pass1", "pass2"}
    /\ h[i] < args[i].hours
    /\ LET d == HourAt(args[i].date, h[i])
           sql == check_hour_sql(Svc(i), Svc(i).success_name, d)
       IN  \E out \in EngineOutcomes(sql) :
             /\ Execute(i, sql, out)
             /\ AfterStatement(i, out, pc[i])
             /\ result' = [result EXCEPT ![i] = IF out.ok THEN Collect(@, d, out.rows) ELSE @]
             /\ h' = [h EXCEPT ![i] = IF out.ok THEN @ + 1 ELSE @]
    /\ UNCHANGED << now, runs, cliVars, missing, todo, idx >>

\* missing = self.get_missing_partitions(...); if missing == []: print, return
FirstEnumerationDone(i) ==
    /\ pc[i] = "pass1"
    /\ h[i] >= args[i].hours
    /\ missing' = [missing EXCEPT ![i] = result[i]]
    /\ pc' = [pc EXCEPT ![i] = IF result[i] = << >> THEN "exit" ELSE "pass2"]
    /\ h' = [h EXCEPT ![i] = 0]
    /\ result' = [result EXCEPT ![i] = << >>]
    /\ UNCHANGED << now, data, inserts, runs, cliVars, exc, todo, idx, stmts >>

\* mutant: the loop runs over the list of the first enumeration
LoopList_cached(first, second) == first

\* the list the for loop iterates: the value of the get_missing_partitions
\* call in its header, not the `missing` tested for emptiness before it
LoopList(first, second) == second

\* for d in self.get_missing_partitions(...): the second enumeration returned
SecondEnumerationDone(i) ==
    /\ pc[i] = "pass2"
    /\ h[i] >= args[i].hours
    /\ todo' = [todo EXCEPT ![i] = LoopList(missing[i], result[i])]
    /\ idx' = [idx EXCEPT ![i] = 1]
    /\ pc' = [pc EXCEPT ![i] = "insert"]
    /\ UNCHANGED << now, data, inserts, runs, cliVars, exc, h, result, missing, stmts >>

\* the for loop's body: cursor.execute(self.process_hourly_success_sql(d))
InsertPartition(i) ==
    /\ pc[i] = "insert"
    /\ idx[i] <= Len(todo[i])
    /\ LET sql == process_hourly_success_sql(Svc(i), todo[i][idx[i]])
       IN  \E out \in EngineOutcomes(sql) :
             /\ Execute(i, sql, out)
             /\ AfterStatement(i, out, "insert")
             /\ idx' = [idx EXCEPT ![i] = IF out.ok THEN @ + 1 ELSE @]
    /\ UNCHANGED << now, runs, cliVars, h, result, missing, todo >>

\* the for loop is exhausted: process_hourly_success returns
InsertsDone(i) ==
    /\ pc[i] = "insert"
    /\ idx[i] > Len(todo[i])
    /\ pc' = [pc EXCEPT ![i] = "exit"]
    /\ UNCHANGED << now, data, inserts, runs, cliVars, exc, hourlyVars, stmts >>

\* mutant: the connection is not closed when the block is left
AfterClose_leak(n) == n

\* the connections left open when a with block is left
AfterClose(n) == n - 1

\* the end of `with pyathena.connect(...) as conn:`, reached by return or by
\* an exception: the connection is closed, an exception goes on to the caller
ExitBlock(i) ==
    /\ pc[i] = "exit"
    /\ conn' = [conn EXCEPT ![i] = AfterClose(@)]
    /\ pc' = [pc EXCEPT ![i] = IF exc[i] # None THEN "raised" ELSE AfterBlock(i)]
    /\ blk' = [blk EXCEPT ![i] = IF exc[i] = None /\ AfterBlock(i) = "block" THEN @ + 1 ELSE @]
    /\ UNCHANGED << now, data, inserts, runs, args, opened, service, exc,
                    hourlyVars, stmts >>

\* one step of an invocation of `process hourly`
HourlyStep(i) ==
    \/ SkipBlock(i)
    \/ Connect(i)
    \/ CheckBase(i)
    \/ GetMissingStep(i)
    \/ FirstEnumerationDone(i)
    \/ SecondEnumerationDone(i)
    \/ InsertPartition(i)
    \/ InsertsDone(i)
    \/ ExitBlock(i)

\* one step of invocation i
Step(i) ==
    \/ HourlyStep(i)
    \/ CreateBaseTable(i)
    \/ CreateSuccessTable(i)
    \/ NotImplemented(i)

\* one invocation of any command line
StartCli ==
    /\ pc[1] = "idle"
    /\ \E a \in CliArgs(now) : Start(1, a)

Next == StartCli \/ Step(1)

Spec == Init /\ [][Next]_vars

\* invocations one after the other, each naming at most one source
StartSequential ==
    /\ CanStart(1, MaxRuns)
    /\ \E a \in OneSourceArgs(now) : Start(1, a)

NextSequential == StartSequential \/ Step(1)

SpecSequential == InitFresh /\ [][NextSequential]_vars

\* two invocations of `process hourly --raster success` that may overlap
StartConcurrent ==
    \E i \in Procs :
        /\ pc[i] = "idle"
        /\ \E a \in RasterHourlyArgs(now) : Start(i, a)

NextConcurrent == StartConcurrent \/ \E i \in Procs : HourlyStep(i)

SpecConcurrent == InitFresh /\ [][NextConcurrent]_vars

(* ------------------------------------------------------------------ *)
(* Vocabulary of the properties                                        *)
(* ------------------------------------------------------------------ *)

\* a calendar-valid partition key
ValidKey(k) ==
    /\ k.month \in 1..12
    /\ k.day \in 1..DaysInMonth(k.year, k.month)
    /\ k.hour \in 0..23

\* how many hours k lies before date
HoursBefore(date, k) == ToHours(date) - ToHours(k)

\* the INSERT entries of invocation i's log, in the order executed
InsertLog(i) == SelectSeq(stmts[i], LAMBDA e : e.sql.stmt = "INSERT")

BaseTableOf(i) == "logs." \o Svc(i).base_name

SuccessTableOf(i) == "logs." \o Svc(i).success_name

\* invocation i is inside process_hourly_success or has just left it
InHourlyCall(i) ==
    /\ args[i].cmd = "hourly"
    /\ service[i] # None
    /\ Len(stmts[i]) >= 1

\* the rows partition k of i's success table held when i's block began: what
\* it holds now less what i's own INSERTs wrote
RowsAtStart(i, k) ==
    CopiesIn([table |-> SuccessTableOf(i), year |-> k.year, month |-> k.month,
              day |-> k.day, hour |-> k.hour], data)
    - Cardinality({ j \in 1..Len(stmts[i]) :
                      /\ stmts[i][j].sql.stmt = "INSERT"
                      /\ stmts[i][j].rows = 1
                      /\ Matches(k, stmts[i][j].sql.where) })

\* the keys of i's window that had no row when i's block began, most recent first
MissingAtStart(i) ==
    LET key(o) == CHOOSE k \in Universe(now) : HoursBefore(args[i].date, k) = o
    IN  SelectSeq([o \in 1..args[i].hours |-> key(o - 1)],
                  LAMBDA k : RowsAtStart(i, k) = 0)

(* ------------------------------------------------------------------ *)
(* C1                                                                  *)
(* ------------------------------------------------------------------ *)

\* the first statement of the call probed the base table at date + 1 hour
\* and the engine answered with no row
GateRefused(i) ==
    /\ InHourlyCall(i)
    /\ stmts[i][1].sql.stmt = "SELECT"
    /\ stmts[i][1].sql.from = BaseTableOf(i)
    /\ \E k \in Universe(now) :
         /\ HoursBefore(args[i].date, k) = -1
         /\ Matches(k, stmts[i][1].sql.where)
    /\ stmts[i][1].ok
    /\ stmts[i][1].rows = 0

\* C1: when the probe of the base table at date + 1 hour returns no row,
\* process_hourly_success raises the not-yet-processable error (ValueError)
\* and the gate probe is the only statement of the call: no INSERT and no
\* other statement follows it; and the error is raised in no other case.
C1_GateRefusal ==
    \A i \in Procs :
        /\ GateRefused(i) =>
             /\ exc[i] = "ValueError"
             /\ pc[i] \in {"exit", "raised"}
             /\ Len(stmts[i]) = 1
             /\ InsertLog(i) = << >>
        /\ exc[i] = "ValueError" => GateRefused(i)

C1_Witness ==
    /\ pc[1] = "raised"
    /\ exc[1] = "ValueError"
    /\ GateRefused(1)
    /\ args[1].hours = MaxHours
    /\ conn[1] = 0

(* ------------------------------------------------------------------ *)
(* C2                                                                  *)
(* ------------------------------------------------------------------ *)

\* C2: over sequential invocations each partition of a success table
\* receives at most one INSERT statement.
C2_AtMostOneInsert ==
    \A p \in BagToSet(inserts) : CopiesIn(p, inserts) <= 1

(* ------------------------------------------------------------------ *)
(* C3                                                                  *)
(* ------------------------------------------------------------------ *)

\* the statements of the call that precede the current enumeration's probes
ProbesFrom(i) == IF pc[i] = "pass1" THEN 1 ELSE 1 + args[i].hours

\* C3: while get_missing_partitions runs, after h probes the list built so
\* far holds exactly the keys date - o hours, o in 0..h-1, whose probe of the
\* table returned no row, most recent first: every entry is a calendar-valid
\* key (hour in 0..23, also across a day boundary), the entries are pairwise
\* distinct and at most h <= hours (none when hours <= 0, where the loop
\* body never runs), probe number o+1 asked for the key o
\* hours before date, and the second enumeration of a call returns the list
\* of the first whenever the probes answered alike.
C3_MissingPartitions ==
    \A i \in Procs :
        /\ pc[i] \in {"pass1", "pass2"} =>
             /\ h[i] <= (IF args[i].hours > 0 THEN args[i].hours ELSE 0)
             /\ Len(stmts[i]) = ProbesFrom(i) + h[i]
             /\ Len(result[i]) <= h[i]
             /\ \A j \in 1..Len(result[i]) :
                  /\ ValidKey(result[i][j])
                  /\ HoursBefore(args[i].date, result[i][j]) \in 0..(h[i] - 1)
             /\ \A j \in 1..(Len(result[i]) - 1) :
                  HoursBefore(args[i].date, result[i][j])
                      < HoursBefore(args[i].date, result[i][j + 1])
             /\ \A o \in 0..(h[i] - 1) :
                  LET e == stmts[i][ProbesFrom(i) + o + 1]
                  IN  /\ e.sql.stmt = "SELECT"
                      /\ e.sql.from = SuccessTableOf(i)
                      /\ \E k \in Universe(now) :
                           /\ ValidKey(k)
                           /\ HoursBefore(args[i].date, k) = o
                           /\ Matches(k, e.sql.where)
                      /\ (e.rows = 0) <=>
                           \E j \in 1..Len(result[i]) :
                               HoursBefore(args[i].date, result[i][j]) = o
        /\ pc[i] = "insert" =>
             ( (\A o \in 1..args[i].hours :
                    stmts[i][1 + o].rows = stmts[i][1 + args[i].hours + o].rows)
               => todo[i] = missing[i] )

\* both entries of a two-hour window were missing, on either side of midnight
C3_Witness ==
    /\ pc[1] = "pass2"
    /\ h[1] = 2
    /\ Len(result[1]) = 2
    /\ result[1][1].hour = 0
    /\ result[1][2].hour = 23
    /\ result[1][1].day # result[1][2].day

(* ------------------------------------------------------------------ *)
(* C4                                                                  *)
(* ------------------------------------------------------------------ *)

\* process_hourly_success has returned without an error and the with block
\* has not been left yet
CallReturned(i) ==
    /\ InHourlyCall(i)
    /\ pc[i] = "exit"
    /\ exc[i] = None

\* C4: when the gate passed and no statement failed, the INSERTs of the call
\* are one per key of the window that had no row in the success table, most
\* recent hour first; each goes into the service's success table from its
\* base table, with the WHERE predicate of its own key and the service's
\* success filter; when no key was missing there is no INSERT.
C4_InsertsAreTheMissingKeys ==
    \A i \in Procs :
        CallReturned(i) =>
            LET ins == InsertLog(i)
                want == MissingAtStart(i)
            IN  /\ Len(ins) = Len(want)
                /\ \A j \in 1..Len(ins) :
                     /\ Matches(want[j], ins[j].sql.where)
                     /\ ins[j].sql.into = SuccessTableOf(i)
                     /\ ins[j].sql.from = BaseTableOf(i)
                     /\ ins[j].sql.and = Svc(i).success_filter_sql

\* a call with a window of two hours, one already filled, that inserted the other
C4_Witness ==
    /\ CallReturned(1)
    /\ args[1].hours = 2
    /\ Len(InsertLog(1)) = 1
    /\ Len(MissingAtStart(1)) = 1
    /\ HoursBefore(args[1].date, MissingAtStart(1)[1]) = 1

(* ------------------------------------------------------------------ *)
(* C5                                                                  *)
(* ------------------------------------------------------------------ *)

\* C5 as claimed: the select list of every INSERT ends with four literal
\* values equal to its key's year, month, day and hour (2025,6,1,10 for
\* 2025-06-01 hour 10), placed after one item per success column.
C5_LiteralPartitionValues ==
    \A i \in Procs : \A j \in 1..Len(stmts[i]) :
        stmts[i][j].sql.stmt = "INSERT" /\ stmts[i][j].rows = 1 =>
            LET sql == stmts[i][j].sql
                n == Len(sql.select)
            IN  /\ n = Len(Svc(i).success_columns) + 4
                /\ sql.select[n - 3] = sql.where.year
                /\ sql.select[n - 2] = sql.where.month
                /\ sql.select[n - 1] = sql.where.day
                /\ sql.select[n] = sql.where.hour

\* C5 amended: the select list of every INSERT has one item per success
\* column (its derivation expression, else its name) followed by the four
\* partition column names year, month, day, hour; the WHERE predicate makes
\* their values those of the key, so the rows an INSERT writes lie in the
\* partition of its key.
C5_PartitionColumnsLast ==
    \A i \in Procs : \A j \in 1..Len(stmts[i]) :
        stmts[i][j].sql.stmt = "INSERT" =>
            LET sql == stmts[i][j].sql
                cols == Svc(i).success_columns
                n == Len(sql.select)
            IN  /\ n = Len(cols) + 4
                /\ \A c \in 1..Len(cols) :
                     sql.select[c] = IF cols[c].success_sql = None
                                     THEN cols[c].name ELSE cols[c].success_sql
                /\ << sql.select[n - 3], sql.select[n - 2], sql.select[n - 1], sql.select[n] >>
                     = << "year", "month", "day", "hour" >>
                /\ stmts[i][j].rows = 1 =>
                     \E row \in BagToSet(data) :
                         row.table = sql.into /\ Matches(row, sql.where)

\* an INSERT of the vector service wrote rows for a key
C5_Witness ==
    /\ service[1] = "vector"
    /\ Len(InsertLog(1)) >= 1
    /\ InsertLog(1)[1].rows = 1
    /\ Len(InsertLog(1)[1].sql.select) = 35

(* ------------------------------------------------------------------ *)
(* C6                                                                  *)
(* ------------------------------------------------------------------ *)

\* invocation i's log holds a probe of the success partition of row that
\* found no row, and after it an INSERT for that partition that wrote rows
ProbedMissingThenInserted(i, row) ==
    \E a \in 1..Len(stmts[i]) : \E b \in (a + 1)..Len(stmts[i]) :
        /\ stmts[i][a].sql.stmt = "SELECT"
        /\ stmts[i][a].sql.from = row.table
        /\ Matches(row, stmts[i][a].sql.where)
        /\ stmts[i][a].ok /\ stmts[i][a].rows = 0
        /\ stmts[i][b].sql.stmt = "INSERT"
        /\ stmts[i][b].sql.into = row.table
        /\ Matches(row, stmts[i][b].sql.where)
        /\ stmts[i][b].rows = 1

\* C6: nothing but the probes stands between two overlapping invocations. A
\* success partition holds the rows of two INSERTs only when each of the two
\* invocations probed it as missing and then inserted into it; as a probe of
\* a partition that has rows finds them, both probes came before either
\* INSERT. (That such a state is reached is C6_Witness.)
C6_DoubleInsertIsARace ==
    \A row \in BagToSet(data) :
        CopiesIn(row, data) >= 2 =>
            /\ CopiesIn(row, data) = 2
            /\ \A i \in Procs : ProbedMissingThenInserted(i, row)

\* the same success partition has received the INSERTs of both invocations
C6_Witness ==
    \E row \in BagToSet(data) :
        /\ CopiesIn(row, data) = 2
        /\ \E p \in BagToSet(inserts) : CopiesIn(p, inserts) = 2 /\ Matches(row, p[2])
        /\ \A i \in Procs : pc[i] = "done"

(* ------------------------------------------------------------------ *)
(* C7                                                                  *)
(* ------------------------------------------------------------------ *)

\* the sources among the first n blocks whose option list is not empty
NamedUpTo(i, n) == Cardinality({ j \in 1..n : args[i][Sources[j]] # {} })

Ended(i) == pc[i] \in {"done", "raised"}

\* C7 as claimed: one connection serves the whole subcommand: never two at
\* once, never a second one after the first, and none left open at the end.
C7_OneConnectionPerSubcommand ==
    \A i \in Procs :
        /\ conn[i] <= 1
        /\ opened[i] <= 1
        /\ Ended(i) => conn[i] = 0

\* C7 amended: every named source gets a connection of its own, opened when
\* its block is entered and released when the block is left, whether by
\* return or by an exception. So at most one connection is open at any time,
\* exactly one while a block runs and none between blocks, a subcommand opens
\* as many connections as it has entered blocks (none when no source is
\* named), and when it ends, normally or with any error, none is open.
C7_OneConnectionPerBlock ==
    \A i \in Procs :
        /\ conn[i] \in {0, 1}
        /\ conn[i] = 1 <=> pc[i] \notin {"idle", "block", "done", "raised"}
        /\ Ended(i) => conn[i] = 0
        /\ pc[i] # "idle" => opened[i] <= NamedUpTo(i, blk[i])
        /\ pc[i] = "done" => opened[i] = NamedUpTo(i, NBlocks(args[i].cmd))

\* create-table naming all three sources ended with the unimplemented-feature
\* error of the third block, after three connections, none of them open
C7_Witness ==
    /\ pc[1] = "raised"
    /\ exc[1] = "NotImplementedError"
    /\ opened[1] = 3
    /\ conn[1] = 0

(* ------------------------------------------------------------------ *)
(* C8                                                                  *)
(* ------------------------------------------------------------------ *)

\* C8: a statement that fails is the last statement of the invocation: the
\* engine's error is in flight or has ended the invocation, the statement is
\* not submitted again and none follows it; and the INSERTs submitted by
\* then, the failed one included, are those of a prefix of the missing keys,
\* most recent first.
C8_FailStop ==
    \A i \in Procs : \A j \in 1..Len(stmts[i]) :
        ~stmts[i][j].ok =>
            /\ j = Len(stmts[i])
            /\ exc[i] = "EngineError"
            /\ pc[i] \in {"exit", "raised"}
            /\ InHourlyCall(i) =>
                 LET ins == InsertLog(i)
                     want == MissingAtStart(i)
                 IN  /\ Len(ins) <= Len(want)
                     /\ \A n \in 1..Len(ins) : Matches(want[n], ins[n].sql.where)

\* the second of two INSERTs failed and ended the invocation
C8_Witness ==
    /\ pc[1] = "raised"
    /\ exc[1] = "EngineError"
    /\ Len(InsertLog(1)) = 2
    /\ InsertLog(1)[1].ok
    /\ ~InsertLog(1)[2].ok
    /\ Len(MissingAtStart(1)) = 2

(* ------------------------------------------------------------------ *)
(* C9                                                                  *)
(* ------------------------------------------------------------------ *)

Names(columns) == [j \in 1..Len(columns) |-> columns[j].name]

Unique(seq) == \A a, b \in 1..Len(seq) : seq[a] = seq[b] => a = b

\* the names of the shared block, in its order
SharedNames ==
    << "time_m", "time_s", "ip", "host", "status", "hit", "size", "ttfb",
       "backend", "referer", "useragent", "s_ch", "s_fetchsite", "origin",
       "reqwith", "accept", "acceptlanguage", "reqs", "sigsci", "ja4t", "ja4",
       "ja4l", "ja4h", "asn", "pop", "country", "tz" >>

\* the composition of the column lists of the service a block constructs
ComposedAsSpecified(source) ==
    LET s == ServiceOf(source)
    IN  /\ source = "vector" =>
             /\ Names(s.success_columns) = << "tileset", "z", "x", "y" >> \o SharedNames
             /\ Names(s.base_columns) = SharedNames \o << "path" >>
        /\ source = "raster" =>
             Names(s.success_columns)
                 = << "z", "x", "y" >> \o SharedNames \o << "ratelimit" >>
        /\ Unique(Names(s.success_columns))
        /\ Unique(Names(s.base_columns))

\* the sources whose service object is composed so
WellComposed == { Sources[j] : j \in { n \in 1..3 : ComposedAsSpecified(Sources[n]) } }

Composition(i) == service[i] \in WellComposed

\* C9 as claimed: the column lists are composed around a shared block of 26
\* fields.
C9_SharedBlockOf26 ==
    \A i \in Procs :
        service[i] # None => (Composition(i) /\ Len(Service.success_columns) = 26)

\* C9 amended: the shared block has 27 fields (time_m .. tz). The vector
\* success list is tileset, z, x, y and then the shared block in its order,
\* nothing appended; the raster success list is z, x, y, the shared block,
\* then ratelimit; the vector base list is the shared block and path; the
\* names are unique within every list of every service.
C9_ColumnComposition ==
    \A i \in Procs :
        service[i] # None =>
            /\ Composition(i)
            /\ Len(Service.success_columns) = 27
            /\ Names(Service.success_columns) = SharedNames

\* the vector block's service object exists and its success table is being created
C9_Witness ==
    /\ service[1] = "vector"
    /\ pc[1] = "create_success_table"

(* ------------------------------------------------------------------ *)
(* C10                                                                 *)
(* ------------------------------------------------------------------ *)

\* the values a table definition gives property key
Property(sql, key) ==
    { sql.tblproperties[j][2] :
        j \in { n \in 1..Len(sql.tblproperties) : sql.tblproperties[n][1] = key } }

DigitsKeys ==
    { "projection.year.digits", "projection.month.digits",
      "projection.day.digits", "projection.hour.digits" }

BaseRecipe(sql) ==
    /\ Property(sql, "projection.year.range") = {"2025,2040"}
    /\ Property(sql, "projection.month.digits") = {"2"}
    /\ Property(sql, "projection.day.digits") = {"2"}
    /\ Property(sql, "projection.hour.digits") = {"2"}
    /\ Property(sql, "parquet.compression") = {}

SuccessRecipe(sql) ==
    /\ Property(sql, "projection.year.range") = {"2025,2040"}
    /\ \A key \in DigitsKeys : Property(sql, key) = {}
    /\ Property(sql, "parquet.compression") = {"ZSTD"}

\* the sources whose two table definitions follow the recipes
WellDefined ==
    { Sources[j] :
        j \in { n \in 1..3 :
                  LET s == ServiceOf(Sources[n])
                  IN  /\ create_base_table_sql(s).table = "logs." \o s.base_name
                      /\ create_success_table_sql(s).table = "logs." \o s.success_name
                      /\ BaseRecipe(create_base_table_sql(s))
                      /\ SuccessRecipe(create_success_table_sql(s)) } }

\* C10: for every source, the base table definition and the success table
\* definition name tables of the same schema (logs) and project the years
\* 2025,2040; the base definition sets projection digits 2 for month, day and
\* hour; the success definition sets no digits property and sets ZSTD
\* compression. This holds of the definitions of every service a block
\* constructs and of every CREATE statement handed to the engine.
C10_TableRecipes ==
    \A i \in Procs :
        /\ service[i] # None => service[i] \in WellDefined
        /\ \A j \in 1..Len(stmts[i]) :
             stmts[i][j].sql.stmt = "CREATE EXTERNAL TABLE" =>
                 \/ /\ stmts[i][j].sql.table = BaseTableOf(i)
                    /\ BaseRecipe(stmts[i][j].sql)
                 \/ /\ stmts[i][j].sql.table = SuccessTableOf(i)
                    /\ SuccessRecipe(stmts[i][j].sql)

\* both tables of the raster source have been created over one connection
C10_Witness ==
    /\ service[1] = "raster"
    /\ Len(stmts[1]) = 2
    /\ \A j \in 1..2 : stmts[1][j].sql.stmt = "CREATE EXTERNAL TABLE"
    /\ stmts[1][1].sql.table = "logs.fastly_raster_logs_v20"
    /\ stmts[1][2].sql.table = "logs.fastly_raster_success_logs_v4"
    /\ stmts[1][1].ok /\ stmts[1][2].ok

(* ------------------------------------------------------------------ *)
(* C11                                                                 *)
(* ------------------------------------------------------------------ *)

\* entry j of invocation i's log is a probe of i's success table for the
\* partition of the WHERE predicate where
IsSuccessProbe(i, j, where) ==
    /\ stmts[i][j].sql.stmt = "SELECT"
    /\ stmts[i][j].sql.from = SuccessTableOf(i)
    /\ stmts[i][j].sql.where = where

\* the position in i's log of the most recent probe of that partition before
\* entry b, 0 when there is none
LastProbeBefore(i, b, where) ==
    LET ps == { j \in 1..(b - 1) : IsSuccessProbe(i, j, where) }
    IN  IF ps = {} THEN 0 ELSE CHOOSE j \in ps : \A q \in ps : q <= j

\* the position of the first INSERT in i's log, 0 when there is none
FirstInsert(i) ==
    LET is == { j \in 1..Len(stmts[i]) : stmts[i][j].sql.stmt = "INSERT" }
    IN  IF is = {} THEN 0 ELSE CHOOSE j \in is : \A q \in is : j <= q

\* C11: process_hourly_success enumerates the success window twice, without
\* caching, before it inserts: the first INSERT of a call comes after the gate
\* probe and two probes of every key of the window, every statement after it
\* is an INSERT (no probe follows an INSERT), and the key of every INSERT was
\* probed in this call with its most recent probe answering no row - also
\* when the first probe of a key answered otherwise than the second. So no
\* INSERT is issued for a key whose most recent probe returned a row.
C11_InsertAfterLatestProbeFalse ==
    \A i \in Procs :
        InHourlyCall(i) /\ FirstInsert(i) # 0 =>
            /\ FirstInsert(i) = 2 + 2 * args[i].hours
            /\ \A j \in 2..(FirstInsert(i) - 1) :
                 /\ stmts[i][j].sql.stmt = "SELECT"
                 /\ stmts[i][j].sql.from = SuccessTableOf(i)
                 /\ stmts[i][j].ok
            /\ \A o \in 1..args[i].hours :
                 stmts[i][1 + o].sql.where = stmts[i][1 + args[i].hours + o].sql.where
            /\ \A b \in FirstInsert(i)..Len(stmts[i]) :
                 /\ stmts[i][b].sql.stmt = "INSERT"
                 /\ LET a == LastProbeBefore(i, b, stmts[i][b].sql.where)
                    IN  /\ a > 1 + args[i].hours
                        /\ stmts[i][a].ok
                        /\ ~check_hour_result(stmts[i][a].rows)

\* the answers changed between the passes: a key was probed as missing in the
\* first enumeration and as present in the second (the other invocation wrote
\* it in between), and the call has issued an INSERT, for the other key of
\* its two-hour window only
C11_Witness ==
    /\ InHourlyCall(1)
    /\ args[1].hours = 2
    /\ FirstInsert(1) = 6
    /\ \E o \in 1..2 :
         /\ stmts[1][1 + o].rows = 0
         /\ stmts[1][3 + o].rows = 1
         /\ \A b \in 6..Len(stmts[1]) :
              stmts[1][b].sql.where # stmts[1][1 + o].sql.where
    /\ pc[1] = "exit"
    /\ exc[1] = None

====
